---------------------------- MODULE Spec2Model ----------------------------
(***************************************************************************)
(* The sync/async correlation bridge of internal/syncasync:                *)
(* callers block in sendAndWait (WaitForMessage, WaitForReply,             *)
(* WaitForTokenPool, WaitForTokenTransfer) on an inflight request that is  *)
(* resolved by a goroutine the event callback starts, or by the caller's   *)
(* context.                                                                *)
(*                                                                         *)
(* addInFlight and removeInFlight hold inflightMux for their whole body    *)
(* and do nothing there that can block, so each is one atomic step that    *)
(* finds the mutex unlocked and leaves it unlocked.  eventCallback holds   *)
(* it up to its deferred Unlock; the goroutines it starts run from their   *)
(* go statement on, so a callback that started some is two steps, with     *)
(* the mutex held in between.  The response channel is unbuffered          *)
(* (make(chan inflightResponse)): a resolver's send and the waiter's       *)
(* receive are one joint step, and a resolver nobody receives from stays   *)
(* blocked in its send.                                                    *)
(***************************************************************************)
EXTENDS Integers, FiniteSets, Sequences, TLC

\* ------------------------------------------------------------------ bounds
\* Number of eventCallback invocations explored.
MaxEvents == 2

\* ---------------------------------------------------------------- universes
Waiters == {"w1", "w2"}
Namespaces == {"ns1", "ns2"}
Ids == {1, 2}
\* a nil *fftypes.UUID
NilId == 0
\* sa.inflightMux held by nobody
Unlocked == "unlocked"
\* sa.inflightMux held by an eventCallback that has not returned
LockedByEventCallback == "eventCallback"

messageConfirm == "messageConfirm"
messageReply == "messageReply"
tokenPoolConfirm == "tokenPoolConfirm"
tokenTransferConfirm == "tokenTransferConfirm"
requestType == {messageConfirm, messageReply, tokenPoolConfirm, tokenTransferConfirm}

EventTypeMessageConfirmed == "message_confirmed"
EventTypeMessageRejected == "message_rejected"
EventTypePoolConfirmed == "token_pool_confirmed"
EventTypePoolRejected == "token_pool_rejected"
EventTypeTransferConfirmed == "token_transfer_confirmed"
EventTypeTransferOpFailed == "token_transfer_op_failed"
EventTypes == {EventTypeMessageConfirmed, EventTypeMessageRejected,
               EventTypePoolConfirmed, EventTypePoolRejected,
               EventTypeTransferConfirmed, EventTypeTransferOpFailed}

\* ------------------------------------------------------------------ values
\* error values; code "nil" is the nil error
NoErr == [code |-> "nil", id |-> NilId]
MsgRejected(id) == [code |-> "MsgRejected", id |-> id]
MsgTokenPoolRejected(id) == [code |-> "MsgTokenPoolRejected", id |-> id]
MsgTokenTransferFailed(id) == [code |-> "MsgTokenTransferFailed", id |-> id]
MsgRequestTimeout(id) == [code |-> "MsgRequestTimeout", id |-> id]
\* the error the caller's send callback returns
SendErr == [code |-> "SendError", id |-> NilId]
\* the error AddSystemEventListener returns
ListenerErr == [code |-> "ListenerError", id |-> NilId]

\* payloads (interface{}), tagged with their dynamic type; type "nil" is nil
NoData == [type |-> "nil", id |-> NilId]
Message(id) == [type |-> "Message", id |-> id]
MessageInOut(id) == [type |-> "MessageInOut", id |-> id]
TokenPool(id) == [type |-> "TokenPool", id |-> id]
TokenTransfer(localID) == [type |-> "TokenTransfer", id |-> localID]

\* type inflightResponse struct
inflightResponse(id, data, err) == [id |-> id, data |-> data, err |-> err]

\* type inflightRequest struct; the response channel is named by the waiter
\* whose addInFlight call made it
inflightRequest(id, reqType, owner) == [id |-> id, reqType |-> reqType, response |-> owner]
NilRequest == [id |-> NilId, reqType |-> "nil", response |-> "nil"]

\* a row of inflightRequestMap: nil (exists = FALSE) or a map id -> request
NilRow == [exists |-> FALSE, reqs |-> << >>]

NoArgs == [ns |-> "nil", id |-> NilId, reqType |-> "nil"]

\* The sendAndWait calls explored.  Namespaces and ids can be renamed, so the
\* first caller's are fixed and it ranges over the request types.  The
\* concurrent caller waits for the same id in the same namespace (a duplicate,
\* or a collision across request types), for the same id in the other
\* namespace, or for a reply under the other id.
CallArgs(w) ==
    IF w = "w1"
    THEN {[ns |-> "ns1", id |-> 1, reqType |-> t] : t \in requestType}
    ELSE {[ns |-> "ns1", id |-> 1, reqType |-> messageConfirm],
          [ns |-> "ns2", id |-> 1, reqType |-> messageConfirm],
          [ns |-> "ns1", id |-> 2, reqType |-> messageReply]}

NoResult == [data |-> NoData, err |-> NoErr]

VARIABLES
    inflight,      \* sa.inflight: namespace -> row
    pc,            \* position of each caller in sendAndWait: "idle" (not called),
                   \* "added" (addInFlight returned), "sending" (in the send
                   \* callback), "waiting" (send returned nil, the select has
                   \* taken no case yet), "cleanup" (before the deferred
                   \* removeInFlight), "done" (returned)
    args,          \* (ns, id, reqType) of each caller's sendAndWait
    ctxDone,       \* whether the caller's ctx is done
    sendRet,       \* what the caller's send callback returned: "none", "nil", "err"
    result,        \* (data, err) sendAndWait returned
    resolvers,     \* the resolve* goroutines that have not terminated
    nEvents,       \* eventCallback invocations so far
    listenerCalls, \* per namespace: calls of AddSystemEventListener
    listenerFails, \* per namespace: calls of AddSystemEventListener that failed
    addCalls,      \* per namespace: calls of addInFlight
    sendCalls,     \* per caller: invocations of its send callback
    received,      \* per caller: values received from its response channel
    returned,      \* per caller: returns of sendAndWait
    inflightMux    \* the holder of sa.inflightMux, Unlocked when nobody holds it

vars == <<inflight, pc, args, ctxDone, sendRet, result, resolvers, nEvents,
          listenerCalls, listenerFails, addCalls, sendCalls, received, returned,
          inflightMux>>

\* ------------------------------------------------------- the inflight table
\* m with key k set to v (Go map assignment)
MapPut(m, k, v) == [x \in (DOMAIN m) \cup {k} |-> IF x = k THEN v ELSE m[x]]
\* m without key k (Go delete)
MapDelete(m, k) == [x \in (DOMAIN m) \ {k} |-> m[x]]

\* addInFlight making the namespace row before it attaches the listener
addInFlightRowFirst(tbl, ns, id, reqType, owner, listenerErr) ==
    LET row == tbl[ns]
        made == [tbl EXCEPT ![ns] = [exists |-> TRUE,
                                     reqs |-> IF row.exists THEN row.reqs ELSE << >>]]
    IN  IF ~row.exists /\ listenerErr # NoErr
        THEN [inflight |-> made, req |-> NilRequest, err |-> listenerErr, listened |-> TRUE]
        ELSE [inflight |-> [made EXCEPT ![ns].reqs =
                               MapPut(@, id, inflightRequest(id, reqType, owner))],
              req |-> inflightRequest(id, reqType, owner), err |-> NoErr,
              listened |-> ~row.exists]

\* addInFlight attaching the listener when the row is empty (len(inflightNS) == 0)
addInFlightListenOnEmpty(tbl, ns, id, reqType, owner, listenerErr) ==
    LET row == tbl[ns]
        empty == ~row.exists \/ DOMAIN row.reqs = {}
    IN  [inflight |-> [tbl EXCEPT ![ns] =
                          [exists |-> TRUE,
                           reqs |-> MapPut(IF row.exists THEN row.reqs ELSE << >>, id,
                                           inflightRequest(id, reqType, owner))]],
         req |-> inflightRequest(id, reqType, owner), err |-> NoErr, listened |-> empty]

\* addInFlight: the table, request and error it leaves, and whether it called
\* AddSystemEventListener, which returned listenerErr
addInFlight(tbl, ns, id, reqType, owner, listenerErr) ==
    LET req == inflightRequest(id, reqType, owner)
        row == tbl[ns]
    IN  IF ~row.exists /\ listenerErr # NoErr
        THEN [inflight |-> tbl, req |-> NilRequest, err |-> listenerErr, listened |-> TRUE]
        ELSE LET reqs == IF row.exists THEN row.reqs ELSE << >>
             IN  [inflight |-> [tbl EXCEPT ![ns] =
                                   [exists |-> TRUE, reqs |-> MapPut(reqs, id, req)]],
                  req |-> req, err |-> NoErr, listened |-> ~row.exists]

\* getInFlight without the comparison of reqType
getInFlightAnyType(tbl, ns, reqType, id) ==
    LET row == tbl[ns]
    IN  IF row.exists /\ id # NilId /\ id \in DOMAIN row.reqs
        THEN row.reqs[id]
        ELSE NilRequest

\* getInFlight looking for the id in the rows of all namespaces
getInFlightAnyNamespace(tbl, ns, reqType, id) ==
    LET found == {n \in Namespaces : /\ tbl[n].exists
                                     /\ id # NilId
                                     /\ id \in DOMAIN tbl[n].reqs
                                     /\ tbl[n].reqs[id].reqType = reqType}
    IN  IF found = {}
        THEN NilRequest
        ELSE tbl[CHOOSE n \in found : TRUE].reqs[id]

getInFlight(tbl, ns, reqType, id) ==
    LET row == tbl[ns]
    IN  IF row.exists /\ id # NilId /\ id \in DOMAIN row.reqs
           /\ row.reqs[id].reqType = reqType
        THEN row.reqs[id]
        ELSE NilRequest

\* removeInFlight that deletes nothing
removeInFlightKeeps(tbl, ns, id) == tbl

\* removeInFlight that also drops a row it has emptied
removeInFlightDropsRow(tbl, ns, id) ==
    IF tbl[ns].exists
    THEN IF DOMAIN tbl[ns].reqs \subseteq {id}
         THEN [tbl EXCEPT ![ns] = NilRow]
         ELSE [tbl EXCEPT ![ns].reqs = MapDelete(@, id)]
    ELSE tbl

removeInFlight(tbl, ns, id) ==
    IF tbl[ns].exists
    THEN [tbl EXCEPT ![ns].reqs = MapDelete(@, id)]
    ELSE tbl

\* ---------------------------------------------------------------- resolvers
\* a goroutine started by eventCallback: stage is "data" (resolveReply before
\* GetMessageData) or "send" (at inflight.response <- ...); n tells apart
\* goroutines that are otherwise alike
Resolver(req, resp, stage) == [inflight |-> req, resp |-> resp, stage |-> stage, n |-> 1]

\* goroutine r added to the running ones
Spawn(running, r) ==
    LET free == {k \in 1..(Cardinality(running) + 1) : [r EXCEPT !.n = k] \notin running}
    IN  running \cup {[r EXCEPT !.n = CHOOSE k \in free : \A j \in free : k <= j]}

RECURSIVE SpawnAll(_, _)
SpawnAll(running, rs) ==
    IF rs = {} THEN running
    ELSE LET r == CHOOSE x \in rs : TRUE
         IN  SpawnAll(Spawn(running, r), rs \ {r})

\* resolveReply answering with the id of the request in place of the reply's
resolveReplyRequestId(req, msg) ==
    Resolver(req, inflightResponse(req.id, MessageInOut(req.id), NoErr), "data")

resolveReply(req, msg) ==
    Resolver(req, inflightResponse(msg.id, MessageInOut(msg.id), NoErr), "data")
\* resolveConfirmed sending the message wrapped as a MessageInOut
resolveConfirmedInOut(req, msg) ==
    Resolver(req, inflightResponse(msg.id, MessageInOut(msg.id), NoErr), "send")

resolveConfirmed(req, msg) ==
    Resolver(req, inflightResponse(msg.id, Message(msg.id), NoErr), "send")
\* resolveRejected sending the rejected message's id as data with the error
resolveRejectedWithData(req, msgID) ==
    Resolver(req, inflightResponse(msgID, Message(msgID), MsgRejected(msgID)), "send")

resolveRejected(req, msgID) ==
    Resolver(req, inflightResponse(NilId, NoData, MsgRejected(msgID)), "send")
\* resolveConfirmedTokenPool sending the pool's id without the pool
resolveConfirmedTokenPoolNoData(req, pool) ==
    Resolver(req, inflightResponse(pool.id, NoData, NoErr), "send")
resolveConfirmedTokenPool(req, pool) ==
    Resolver(req, inflightResponse(pool.id, TokenPool(pool.id), NoErr), "send")
resolveRejectedTokenPool(req, poolID) ==
    Resolver(req, inflightResponse(NilId, NoData, MsgTokenPoolRejected(poolID)), "send")
resolveConfirmedTokenTransfer(req, transfer) ==
    Resolver(req, inflightResponse(transfer.id, TokenTransfer(transfer.id), NoErr), "send")
\* resolveFailedTokenTransfer answering with the error of a rejected message
resolveFailedTokenTransferMsgRejected(req, transferID) ==
    Resolver(req, inflightResponse(NilId, NoData, MsgRejected(transferID)), "send")

resolveFailedTokenTransfer(req, transferID) ==
    Resolver(req, inflightResponse(NilId, NoData, MsgTokenTransferFailed(transferID)), "send")

\* ------------------------------------------------------------ eventCallback
\* What the database read of the callback gives: an error, nothing, or the
\* entity.  id is the message's Header.ID, the pool's ID, the transfer's
\* LocalID, or the LocalID decoded from the operation's inputs (NilId when
\* they cannot be decoded); cid is the message's Header.CID.
DbErr == [status |-> "err", id |-> NilId, cid |-> NilId]
DbNone == [status |-> "none", id |-> NilId, cid |-> NilId]
DbEntity(id, cid) == [status |-> "ok", id |-> id, cid |-> cid]

DbOutcomes(type) ==
    {DbErr, DbNone} \cup
    IF type \in {EventTypeMessageConfirmed, EventTypeMessageRejected}
    THEN {DbEntity(i, c) : i \in Ids, c \in Ids \cup {NilId}}
    ELSE IF type = EventTypeTransferOpFailed
    THEN {DbEntity(i, NilId) : i \in Ids \cup {NilId}}
    ELSE {DbEntity(i, NilId) : i \in Ids}

\* the one-element set holding the goroutine started for a match, or {}
Go(req, resolver) == IF req = NilRequest THEN {} ELSE {resolver}

\* len(inflightNS) == 0: the callback returns before any database read
NoInflights(tbl, ns) == ~tbl[ns].exists \/ DOMAIN tbl[ns].reqs = {}

\* eventCallback looking for a confirmation only when the message is no reply
\* to an inflight one
dispatchReplyElseConfirmed(tbl, type, ns, db) ==
    IF NoInflights(tbl, ns)
    THEN {}
    ELSE IF db.status # "ok"
    THEN {}
    ELSE CASE type = EventTypeMessageConfirmed ->
                LET inflightReply == getInFlight(tbl, ns, messageReply, db.cid)
                    inflightReq == getInFlight(tbl, ns, messageConfirm, db.id)
                IN  IF inflightReply # NilRequest
                    THEN Go(inflightReply, resolveReply(inflightReply, db))
                    ELSE Go(inflightReq, resolveConfirmed(inflightReq, db))
           [] type = EventTypeMessageRejected ->
                LET inflightReq == getInFlight(tbl, ns, messageConfirm, db.id)
                IN  Go(inflightReq, resolveRejected(inflightReq, db.id))
           [] type = EventTypePoolConfirmed ->
                LET inflightReq == getInFlight(tbl, ns, tokenPoolConfirm, db.id)
                IN  Go(inflightReq, resolveConfirmedTokenPool(inflightReq, db))
           [] type = EventTypePoolRejected ->
                LET inflightReq == getInFlight(tbl, ns, tokenPoolConfirm, db.id)
                IN  Go(inflightReq, resolveRejectedTokenPool(inflightReq, db.id))
           [] type = EventTypeTransferConfirmed ->
                LET inflightReq == getInFlight(tbl, ns, tokenTransferConfirm, db.id)
                IN  Go(inflightReq, resolveConfirmedTokenTransfer(inflightReq, db))
           [] type = EventTypeTransferOpFailed ->
                LET inflightReq == getInFlight(tbl, ns, tokenTransferConfirm, db.id)
                IN  Go(inflightReq, resolveFailedTokenTransfer(inflightReq, db.id))
           [] OTHER -> {}

\* eventCallback taking a request of any type under the message's id for an
\* inflight message to confirm
dispatchConfirmAnyType(tbl, type, ns, db) ==
    IF NoInflights(tbl, ns)
    THEN {}
    ELSE IF db.status # "ok"
    THEN {}
    ELSE CASE type = EventTypeMessageConfirmed ->
                LET inflightReply == getInFlight(tbl, ns, messageReply, db.cid)
                    inflightReq == getInFlightAnyType(tbl, ns, messageConfirm, db.id)
                IN  Go(inflightReply, resolveReply(inflightReply, db))
                    \cup Go(inflightReq, resolveConfirmed(inflightReq, db))
           [] type = EventTypeMessageRejected ->
                LET inflightReq == getInFlight(tbl, ns, messageConfirm, db.id)
                IN  Go(inflightReq, resolveRejected(inflightReq, db.id))
           [] type = EventTypePoolConfirmed ->
                LET inflightReq == getInFlight(tbl, ns, tokenPoolConfirm, db.id)
                IN  Go(inflightReq, resolveConfirmedTokenPool(inflightReq, db))
           [] type = EventTypePoolRejected ->
                LET inflightReq == getInFlight(tbl, ns, tokenPoolConfirm, db.id)
                IN  Go(inflightReq, resolveRejectedTokenPool(inflightReq, db.id))
           [] type = EventTypeTransferConfirmed ->
                LET inflightReq == getInFlight(tbl, ns, tokenTransferConfirm, db.id)
                IN  Go(inflightReq, resolveConfirmedTokenTransfer(inflightReq, db))
           [] type = EventTypeTransferOpFailed ->
                LET inflightReq == getInFlight(tbl, ns, tokenTransferConfirm, db.id)
                IN  Go(inflightReq, resolveFailedTokenTransfer(inflightReq, db.id))
           [] OTHER -> {}

\* the goroutines one eventCallback invocation starts
dispatch(tbl, type, ns, db) ==
    IF NoInflights(tbl, ns)
    THEN {}
    ELSE IF db.status # "ok"
    THEN {}
    ELSE CASE type = EventTypeMessageConfirmed ->
                LET inflightReply == getInFlight(tbl, ns, messageReply, db.cid)
                    inflightReq == getInFlight(tbl, ns, messageConfirm, db.id)
                IN  Go(inflightReply, resolveReply(inflightReply, db))
                    \cup Go(inflightReq, resolveConfirmed(inflightReq, db))
           [] type = EventTypeMessageRejected ->
                LET inflightReq == getInFlight(tbl, ns, messageConfirm, db.id)
                IN  Go(inflightReq, resolveRejected(inflightReq, db.id))
           [] type = EventTypePoolConfirmed ->
                LET inflightReq == getInFlight(tbl, ns, tokenPoolConfirm, db.id)
                IN  Go(inflightReq, resolveConfirmedTokenPool(inflightReq, db))
           [] type = EventTypePoolRejected ->
                LET inflightReq == getInFlight(tbl, ns, tokenPoolConfirm, db.id)
                IN  Go(inflightReq, resolveRejectedTokenPool(inflightReq, db.id))
           [] type = EventTypeTransferConfirmed ->
                LET inflightReq == getInFlight(tbl, ns, tokenTransferConfirm, db.id)
                IN  Go(inflightReq, resolveConfirmedTokenTransfer(inflightReq, db))
           [] type = EventTypeTransferOpFailed ->
                LET inflightReq == getInFlight(tbl, ns, tokenTransferConfirm, db.id)
                IN  Go(inflightReq, resolveFailedTokenTransfer(inflightReq, db.id))
           [] OTHER -> {}

\* an event type the switch of eventCallback has no case for
EventTypeNamespaceConfirmed == "namespace_confirmed"
AllEventTypes == EventTypes \cup {EventTypeNamespaceConfirmed}

\* eventCallback reading the database before it looks at the namespace's row
databaseReadsBeforeLookup(tbl, type, ns) == IF type \in EventTypes THEN 1 ELSE 0

\* the database reads one eventCallback invocation makes: the get*FromEvent
\* call of the event type's case, and none on the return before the switch
databaseReads(tbl, type, ns) ==
    IF NoInflights(tbl, ns) THEN 0 ELSE IF type \in EventTypes THEN 1 ELSE 0

\* the error of a failed database read
DatabaseErr == [code |-> "DatabaseError", id |-> NilId]

\* eventCallback returning nil when the database read failed
eventCallbackReturnNil(tbl, type, ns, db) == NoErr

\* eventCallback returning the RetrieveTokenTransferInputs error in place of
\* logging it
eventCallbackReturnInputsErr(tbl, type, ns, db) ==
    IF databaseReads(tbl, type, ns) > 0 /\ db = DbErr
    THEN DatabaseErr
    ELSE IF databaseReads(tbl, type, ns) > 0 /\ type = EventTypeTransferOpFailed
            /\ db.status = "ok" /\ db.id = NilId
    THEN [code |-> "InputsError", id |-> NilId]
    ELSE NoErr

\* the error one eventCallback invocation returns
eventCallbackReturn(tbl, type, ns, db) ==
    IF databaseReads(tbl, type, ns) > 0 /\ db = DbErr THEN DatabaseErr ELSE NoErr

\* db is what the database read gives; there is none when the callback does
\* not read.  The goroutines run from their go statement on, while the
\* callback still holds the mutex up to its deferred Unlock: the callback that
\* started none returns in this step, the one that started some in
\* eventCallbackUnlock.
eventCallback(type, ns, db) ==
    /\ nEvents < MaxEvents
    /\ inflightMux = Unlocked
    /\ databaseReads(inflight, type, ns) = 0 => db = DbNone
    /\ nEvents' = nEvents + 1
    /\ resolvers' = SpawnAll(resolvers, dispatch(inflight, type, ns, db))
    /\ inflightMux' = IF dispatch(inflight, type, ns, db) = {}
                      THEN Unlocked
                      ELSE LockedByEventCallback
    /\ UNCHANGED <<inflight, pc, args, ctxDone, sendRet, result, listenerCalls,
                   listenerFails, addCalls, sendCalls, received, returned>>

\* eventCallback returning only once the responses of the goroutines it
\* started have been received
eventCallbackUnlockWhenReceived ==
    /\ inflightMux = LockedByEventCallback
    /\ resolvers = {}
    /\ inflightMux' = Unlocked
    /\ UNCHANGED <<inflight, pc, args, ctxDone, sendRet, result, resolvers, nEvents,
                   listenerCalls, listenerFails, addCalls, sendCalls, received,
                   returned>>

\* return nil after the switch, and the deferred sa.inflightMux.Unlock()
eventCallbackUnlock ==
    /\ inflightMux = LockedByEventCallback
    /\ inflightMux' = Unlocked
    /\ UNCHANGED <<inflight, pc, args, ctxDone, sendRet, result, resolvers, nEvents,
                   listenerCalls, listenerFails, addCalls, sendCalls, received,
                   returned>>

\* resolveReply taking the mutex for its GetMessageData call
resolveReplyGetDataLocked(r, ok) ==
    /\ r \in resolvers
    /\ r.stage = "data"
    /\ inflightMux = Unlocked
    /\ resolvers' = IF ok
                    THEN Spawn(resolvers \ {r}, [r EXCEPT !.stage = "send"])
                    ELSE resolvers \ {r}
    /\ UNCHANGED <<inflight, pc, args, ctxDone, sendRet, result, nEvents, listenerCalls,
                   listenerFails, addCalls, sendCalls, received, returned,
                   inflightMux>>

\* resolveReply sending the GetMessageData error to the caller
resolveReplyGetDataSendsErr(r, ok) ==
    /\ r \in resolvers
    /\ r.stage = "data"
    /\ resolvers' = IF ok
                    THEN Spawn(resolvers \ {r}, [r EXCEPT !.stage = "send"])
                    ELSE Spawn(resolvers \ {r},
                               [r EXCEPT !.stage = "send",
                                         !.resp = inflightResponse(r.resp.id, NoData,
                                                                   DatabaseErr)])
    /\ UNCHANGED <<inflight, pc, args, ctxDone, sendRet, result, nEvents, listenerCalls,
                   listenerFails, addCalls, sendCalls, received, returned,
                   inflightMux>>

\* resolveReply's GetMessageData: on an error the goroutine returns
resolveReplyGetData(r, ok) ==
    /\ r \in resolvers
    /\ r.stage = "data"
    /\ resolvers' = IF ok
                    THEN Spawn(resolvers \ {r}, [r EXCEPT !.stage = "send"])
                    ELSE resolvers \ {r}
    /\ UNCHANGED <<inflight, pc, args, ctxDone, sendRet, result, nEvents, listenerCalls,
                   listenerFails, addCalls, sendCalls, received, returned,
                   inflightMux>>

\* -------------------------------------------------------------- sendAndWait
\* The caller's context becomes done (deadline or cancel).  sendAndWait reads
\* ctx in its select only, where a ctx that was done earlier is seen as one
\* that is done on arrival: the step is taken at the select.
ctxCancel(w) ==
    /\ pc[w] = "waiting"
    /\ ~ctxDone[w]
    /\ ctxDone' = [ctxDone EXCEPT ![w] = TRUE]
    /\ UNCHANGED <<inflight, pc, args, sendRet, result, resolvers, nEvents, listenerCalls,
                   listenerFails, addCalls, sendCalls, received, returned,
                   inflightMux>>

\* sendAndWait up to its addInFlight call; on an error it returns it
sendAndWaitAdd(w, ns, id, reqType, listenerErr) ==
    /\ pc[w] = "idle"
    /\ inflightMux = Unlocked
    /\ inflight[ns].exists => listenerErr = NoErr
    /\ LET a == addInFlight(inflight, ns, id, reqType, w, listenerErr)
       IN  /\ inflight' = a.inflight
           /\ args' = [args EXCEPT ![w] = [ns |-> ns, id |-> id, reqType |-> reqType]]
           /\ addCalls' = [addCalls EXCEPT ![ns] = @ + 1]
           /\ listenerCalls' = [listenerCalls EXCEPT ![ns] = IF a.listened THEN @ + 1 ELSE @]
           /\ listenerFails' = [listenerFails EXCEPT ![ns] =
                                   IF a.listened /\ a.err # NoErr THEN @ + 1 ELSE @]
           /\ IF a.err # NoErr
              THEN /\ pc' = [pc EXCEPT ![w] = "done"]
                   /\ result' = [result EXCEPT ![w] = [data |-> NoData, err |-> a.err]]
                   /\ returned' = [returned EXCEPT ![w] = @ + 1]
              ELSE /\ pc' = [pc EXCEPT ![w] = "added"]
                   /\ UNCHANGED <<result, returned>>
    /\ UNCHANGED <<ctxDone, sendRet, resolvers, nEvents, sendCalls, received,
                   inflightMux>>

\* err = send(ctx): the callback is entered
sendAndWaitSend(w) ==
    /\ pc[w] = "added"
    /\ pc' = [pc EXCEPT ![w] = "sending"]
    /\ sendCalls' = [sendCalls EXCEPT ![w] = @ + 1]
    /\ UNCHANGED <<inflight, args, ctxDone, sendRet, result, resolvers, nEvents,
                   listenerCalls, listenerFails, addCalls, received, returned,
                   inflightMux>>

\* sendAndWait going on to its select whatever send returned
sendAndWaitSendReturnsIgnored(w, err) ==
    /\ pc[w] = "sending"
    /\ pc' = [pc EXCEPT ![w] = "waiting"]
    /\ sendRet' = [sendRet EXCEPT ![w] = IF err # NoErr THEN "err" ELSE "nil"]
    /\ UNCHANGED <<inflight, args, ctxDone, result, resolvers, nEvents, listenerCalls,
                   listenerFails, addCalls, sendCalls, received, returned,
                   inflightMux>>

\* the callback returns err; a non-nil err is returned at once
sendAndWaitSendReturns(w, err) ==
    /\ pc[w] = "sending"
    /\ IF err # NoErr
       THEN /\ pc' = [pc EXCEPT ![w] = "cleanup"]
            /\ sendRet' = [sendRet EXCEPT ![w] = "err"]
            /\ result' = [result EXCEPT ![w] = [data |-> NoData, err |-> err]]
       ELSE /\ pc' = [pc EXCEPT ![w] = "waiting"]
            /\ sendRet' = [sendRet EXCEPT ![w] = "nil"]
            /\ UNCHANGED result
    /\ UNCHANGED <<inflight, args, ctxDone, resolvers, nEvents, listenerCalls,
                   listenerFails, addCalls, sendCalls, received, returned,
                   inflightMux>>

\* the ctx.Done() case returning ctx.Err() in place of the RequestTimeout error
sendAndWaitCtxDoneCtxErr(w) ==
    /\ pc[w] = "waiting"
    /\ ctxDone[w]
    /\ pc' = [pc EXCEPT ![w] = "cleanup"]
    /\ result' = [result EXCEPT ![w] =
                     [data |-> NoData, err |-> [code |-> "context canceled", id |-> NilId]]]
    /\ UNCHANGED <<inflight, args, ctxDone, sendRet, resolvers, nEvents, listenerCalls,
                   listenerFails, addCalls, sendCalls, received, returned,
                   inflightMux>>

\* select: case <-ctx.Done()
sendAndWaitCtxDone(w) ==
    /\ pc[w] = "waiting"
    /\ ctxDone[w]
    /\ pc' = [pc EXCEPT ![w] = "cleanup"]
    /\ result' = [result EXCEPT ![w] =
                     [data |-> NoData, err |-> MsgRequestTimeout(args[w].id)]]
    /\ UNCHANGED <<inflight, args, ctxDone, sendRet, resolvers, nEvents, listenerCalls,
                   listenerFails, addCalls, sendCalls, received, returned,
                   inflightMux>>

\* a receive from the response channel that goes back to the select
sendAndWaitReplyAgain(w, r) ==
    /\ pc[w] = "waiting"
    /\ r \in resolvers
    /\ r.stage = "send"
    /\ r.inflight.response = w
    /\ result' = [result EXCEPT ![w] = [data |-> r.resp.data, err |-> r.resp.err]]
    /\ received' = [received EXCEPT ![w] = @ + 1]
    /\ resolvers' = resolvers \ {r}
    /\ UNCHANGED <<inflight, pc, args, ctxDone, sendRet, nEvents, listenerCalls,
                   listenerFails, addCalls, sendCalls, returned,
                   inflightMux>>

\* a delivery that takes the inflight out of the table
sendAndWaitReplyRemoves(w, r) ==
    /\ pc[w] = "waiting"
    /\ r \in resolvers
    /\ r.stage = "send"
    /\ r.inflight.response = w
    /\ pc' = [pc EXCEPT ![w] = "cleanup"]
    /\ result' = [result EXCEPT ![w] = [data |-> r.resp.data, err |-> r.resp.err]]
    /\ received' = [received EXCEPT ![w] = @ + 1]
    /\ resolvers' = resolvers \ {r}
    /\ inflight' = removeInFlight(inflight, args[w].ns, r.inflight.id)
    /\ UNCHANGED <<args, ctxDone, sendRet, nEvents, listenerCalls,
                   listenerFails, addCalls, sendCalls, returned, inflightMux>>

\* select receiving what a resolver sends for any request of the caller's id
\* and type, whichever call made the request
sendAndWaitReplyById(w, r) ==
    /\ pc[w] = "waiting"
    /\ r \in resolvers
    /\ r.stage = "send"
    /\ r.inflight.id = args[w].id
    /\ r.inflight.reqType = args[w].reqType
    /\ pc' = [pc EXCEPT ![w] = "cleanup"]
    /\ result' = [result EXCEPT ![w] = [data |-> r.resp.data, err |-> r.resp.err]]
    /\ received' = [received EXCEPT ![w] = @ + 1]
    /\ resolvers' = resolvers \ {r}
    /\ UNCHANGED <<inflight, args, ctxDone, sendRet, nEvents, listenerCalls,
                   listenerFails, addCalls, sendCalls, returned,
                   inflightMux>>

\* select: case reply := <-inflight.response, with resolver r as the sender
sendAndWaitReply(w, r) ==
    /\ pc[w] = "waiting"
    /\ r \in resolvers
    /\ r.stage = "send"
    /\ r.inflight.response = w
    /\ pc' = [pc EXCEPT ![w] = "cleanup"]
    /\ result' = [result EXCEPT ![w] = [data |-> r.resp.data, err |-> r.resp.err]]
    /\ received' = [received EXCEPT ![w] = @ + 1]
    /\ resolvers' = resolvers \ {r}
    /\ UNCHANGED <<inflight, args, ctxDone, sendRet, nEvents, listenerCalls,
                   listenerFails, addCalls, sendCalls, returned,
                   inflightMux>>

\* the dynamic type the WaitFor* wrapper of a request type asserts on the reply
\* sendAndWait returned with a nil error; the assertion panics on any other
WaitForType(reqType) ==
    CASE reqType = messageReply -> "MessageInOut"
      [] reqType = messageConfirm -> "Message"
      [] reqType = tokenPoolConfirm -> "TokenPool"
      [] reqType = tokenTransferConfirm -> "TokenTransfer"
      [] OTHER -> "none"

\* the deferred removeInFlight deleting without taking sa.inflightMux
sendAndWaitDeferNoLock(w) ==
    /\ pc[w] = "cleanup"
    /\ inflight' = removeInFlight(inflight, args[w].ns, args[w].id)
    /\ pc' = [pc EXCEPT ![w] = "done"]
    /\ returned' = [returned EXCEPT ![w] = @ + 1]
    /\ UNCHANGED <<args, ctxDone, sendRet, result, resolvers, nEvents, listenerCalls,
                   listenerFails, addCalls, sendCalls, received,
                   inflightMux>>

\* the deferred function (removeInFlight), then the return
sendAndWaitDefer(w) ==
    /\ pc[w] = "cleanup"
    /\ inflightMux = Unlocked
    /\ inflight' = removeInFlight(inflight, args[w].ns, args[w].id)
    /\ pc' = [pc EXCEPT ![w] = "done"]
    /\ returned' = [returned EXCEPT ![w] = @ + 1]
    /\ UNCHANGED <<args, ctxDone, sendRet, result, resolvers, nEvents, listenerCalls,
                   listenerFails, addCalls, sendCalls, received,
                   inflightMux>>

\* ---------------------------------------------------------- specifications
\* NewSyncAsyncBridge, and no caller yet
Init ==
    /\ inflight = [ns \in Namespaces |-> NilRow]
    /\ pc = [w \in Waiters |-> "idle"]
    /\ args = [w \in Waiters |-> NoArgs]
    /\ ctxDone = [w \in Waiters |-> FALSE]
    /\ sendRet = [w \in Waiters |-> "none"]
    /\ result = [w \in Waiters |-> NoResult]
    /\ resolvers = {}
    /\ nEvents = 0
    /\ listenerCalls = [ns \in Namespaces |-> 0]
    /\ listenerFails = [ns \in Namespaces |-> 0]
    /\ addCalls = [ns \in Namespaces |-> 0]
    /\ sendCalls = [w \in Waiters |-> 0]
    /\ received = [w \in Waiters |-> 0]
    /\ returned = [w \in Waiters |-> 0]
    /\ inflightMux = Unlocked

Next ==
    \/ \E w \in Waiters : \E a \in CallArgs(w), e \in {NoErr, ListenerErr} :
          sendAndWaitAdd(w, a.ns, a.id, a.reqType, e)
    \/ \E w \in Waiters : sendAndWaitSend(w)
    \/ \E w \in Waiters, e \in {NoErr, SendErr} : sendAndWaitSendReturns(w, e)
    \/ \E w \in Waiters : sendAndWaitCtxDone(w)
    \/ \E w \in Waiters, r \in resolvers : sendAndWaitReply(w, r)
    \/ \E w \in Waiters : sendAndWaitDefer(w)
    \/ \E w \in Waiters : ctxCancel(w)
    \/ \E t \in AllEventTypes, ns \in Namespaces :
          \E db \in DbOutcomes(t) : eventCallback(t, ns, db)
    \/ eventCallbackUnlock
    \/ \E r \in resolvers, ok \in BOOLEAN : resolveReplyGetData(r, ok)

Spec == Init /\ [][Next]_vars

\* The Go scheduler runs every goroutine that can run: a caller in its select
\* with a case that can proceed takes one, a caller that left the select runs
\* its deferred function and returns, and a resolveReply goroutine gets what
\* its GetMessageData call returns, and an eventCallback that has started its
\* goroutines returns.  Nothing is assumed of the send callback, the event
\* bus, the database or the caller's context.
Fairness ==
    /\ \A w \in Waiters :
          /\ WF_vars(sendAndWaitCtxDone(w) \/ \E r \in resolvers : sendAndWaitReply(w, r))
          /\ WF_vars(sendAndWaitDefer(w))
    /\ WF_vars(\E r \in resolvers, ok \in BOOLEAN : resolveReplyGetData(r, ok))
    /\ WF_vars(eventCallbackUnlock)

FairSpec == Init /\ [][Next]_vars /\ Fairness


\* ------------------------------------------------------------------ helpers
\* the caller is between its addInFlight and the end of its removeInFlight
Registered(w) == pc[w] \in {"added", "sending", "waiting", "cleanup"}

\* the request the caller's addInFlight made is the one the table holds
OwnEntryPresent(w) ==
    /\ pc[w] # "idle"
    /\ inflight[args[w].ns].exists
    /\ args[w].id \in DOMAIN inflight[args[w].ns].reqs
    /\ inflight[args[w].ns].reqs[args[w].id].response = w

\* the resolvers blocked in their send on the caller's response channel
Senders(w) == {r \in resolvers : r.inflight.response = w /\ r.stage = "send"}

\* ----------------------------------------------------------------------- C1
\* C1: at most one value is ever received from a caller's response channel,
\* and sendAndWait returns once: never twice, and exactly once when it is done.
UniqueResolution ==
    \A w \in Waiters :
        /\ received[w] <= 1
        /\ returned[w] <= 1
        /\ (pc[w] = "done") <=> (returned[w] = 1)
        /\ (received[w] = 1) => (pc[w] \in {"cleanup", "done"})

\* a caller returned its one response while a second resolution, with another
\* outcome, is still being sent to it
UniqueResolutionWitness ==
    \E w \in Waiters :
        /\ pc[w] = "done"
        /\ received[w] = 1
        /\ returned[w] = 1
        /\ \E r \in Senders(w) : (r.resp.err = NoErr) # (result[w].err = NoErr)

\* ----------------------------------------------------------------------- C2
\* C2: once sendAndWait has returned, getInFlight for its namespace, request
\* type and id gives nil, unless another caller is registered with that id.
Cleanup ==
    \A w \in Waiters :
        (/\ pc[w] = "done"
         /\ \A o \in Waiters \ {w} :
               ~(Registered(o) /\ args[o].ns = args[w].ns /\ args[o].id = args[w].id))
        => getInFlight(inflight, args[w].ns, args[w].reqType, args[w].id) = NilRequest

\* a caller returned a payload and its entry is gone from the row it was in
CleanupWitness ==
    \E w \in Waiters :
        /\ pc[w] = "done"
        /\ received[w] = 1
        /\ result[w].err = NoErr
        /\ inflight[args[w].ns].exists
        /\ args[w].id \notin DOMAIN inflight[args[w].ns].reqs

\* ----------------------------------------------------------------------- C3
\* C3: while the send callback of a caller runs, the table holds the caller's
\* inflight, so that an event for it is matched to this caller.
SendBeforeMatch ==
    \A w \in Waiters :
        pc[w] = "sending" =>
            getInFlight(inflight, args[w].ns, args[w].reqType, args[w].id)
                = inflightRequest(args[w].id, args[w].reqType, w)

\* ----------------------------------------------------------------------- C4
\* the payload a confirmation hands to a caller of this request type and id
ConfirmedData(reqType, id) ==
    CASE reqType = messageConfirm -> Message(id)
      [] reqType = tokenPoolConfirm -> TokenPool(id)
      [] reqType = tokenTransferConfirm -> TokenTransfer(id)
      [] OTHER -> NoData

\* the error a rejection or failure hands to a caller of this request type and id
RejectedErr(reqType, id) ==
    CASE reqType = messageConfirm -> MsgRejected(id)
      [] reqType = tokenPoolConfirm -> MsgTokenPoolRejected(id)
      [] reqType = tokenTransferConfirm -> MsgTokenTransferFailed(id)
      [] OTHER -> NoErr

\* the caller waits for a confirmation and is in its select, and a resolver the
\* callback started for its inflight holds the confirmed entity
ConfirmationPending(w) ==
    /\ pc[w] = "waiting"
    /\ args[w].reqType \in {messageConfirm, tokenPoolConfirm, tokenTransferConfirm}
    /\ \E r \in Senders(w) : r.resp.err = NoErr

ReturnedConfirmed(w) ==
    /\ pc[w] = "done"
    /\ result[w] = [data |-> ConfirmedData(args[w].reqType, args[w].id), err |-> NoErr]

ReturnedRejected(w) ==
    /\ pc[w] = "done"
    /\ result[w] = [data |-> NoData, err |-> RejectedErr(args[w].reqType, args[w].id)]

\* C4 as claimed: a caller of WaitForMessage, WaitForTokenPool or
\* WaitForTokenTransfer whose send returned nil, whose context is not
\* cancelled and for whose inflight the confirmed event was matched returns
\* the entity with a nil error: what it leaves its select with is that.
EventualSuccessClaimed ==
    [][\A w \in Waiters :
          (ConfirmationPending(w) /\ ~ctxDone[w] /\ pc'[w] # "waiting")
          => result'[w] = [data |-> ConfirmedData(args[w].reqType, args[w].id),
                           err |-> NoErr]]_vars

\* C4 as amended: such a caller returns, unless its context is cancelled, one
\* response of its inflight: the entity with a nil error, or the typed error of
\* a rejection or failure event that was matched for the same inflight.
EventualSuccess ==
    \A w \in Waiters :
        ConfirmationPending(w) ~>
            (ctxDone[w] \/ (received[w] = 1 /\ (ReturnedConfirmed(w) \/ ReturnedRejected(w))))

\* a caller with a confirmation and a rejection pending returned the entity
EventualSuccessWitness ==
    \E w \in Waiters :
        /\ ReturnedConfirmed(w)
        /\ ~ctxDone[w]
        /\ received[w] = 1
        /\ \E r \in Senders(w) : r.resp.err # NoErr

\* ----------------------------------------------------------------------- C5
\* the caller returned RequestTimeout with its id and no payload
ReturnedTimeout(w) ==
    /\ pc[w] = "done"
    /\ result[w] = [data |-> NoData, err |-> MsgRequestTimeout(args[w].id)]

\* C5 as claimed: a caller in its select whose context is done returns
\* RequestTimeout, whatever else runs: what it leaves its select with is that.
CancellationClaimed ==
    [][\A w \in Waiters :
          (pc[w] = "waiting" /\ ctxDone[w] /\ pc'[w] # "waiting")
          => result'[w] = [data |-> NoData, err |-> MsgRequestTimeout(args[w].id)]]_vars

\* C5 as amended: such a caller returns, with RequestTimeout unless its select
\* took a response that a resolver was sending, and its inflight is removed.
Cancellation ==
    \A w \in Waiters :
        (pc[w] = "waiting" /\ ctxDone[w]) ~>
            (/\ pc[w] = "done"
             /\ ReturnedTimeout(w) \/ received[w] = 1
             /\ ~OwnEntryPresent(w)
             /\ (\A o \in Waiters \ {w} : ~Registered(o)) =>
                    args[w].id \notin DOMAIN inflight[args[w].ns].reqs)

\* a caller returned RequestTimeout while a resolver was sending to it
CancellationWitness ==
    \E w \in Waiters :
        /\ ReturnedTimeout(w)
        /\ ctxDone[w]
        /\ received[w] = 0
        /\ Senders(w) # {}
        /\ ~OwnEntryPresent(w)

\* ----------------------------------------------------------------------- C6
\* C6: when the send callback returns an error, sendAndWait returns that error
\* and no payload, receives nothing and does not return a timeout, and its
\* inflight is removed.
SendFailure ==
    \A w \in Waiters :
        sendRet[w] = "err" =>
            /\ pc[w] \in {"cleanup", "done"}
            /\ result[w] = [data |-> NoData, err |-> SendErr]
            /\ received[w] = 0
            /\ pc[w] = "done" => ~OwnEntryPresent(w)

\* a caller returned its send error although a response was being sent to it
SendFailureWitness ==
    \E w \in Waiters :
        /\ sendRet[w] = "err"
        /\ pc[w] = "done"
        /\ result[w].err = SendErr
        /\ Senders(w) # {}
        /\ args[w].id \notin DOMAIN inflight[args[w].ns].reqs

\* ----------------------------------------------------------------------- C7
\* C7: addInFlight for an id that is inflight in the namespace returns a
\* duplicate-inflight error and leaves the table as it is.
DuplicateInflight ==
    [][\A w \in Waiters :
          (/\ pc[w] = "idle"
           /\ pc'[w] # "idle"
           /\ inflight[args'[w].ns].exists
           /\ args'[w].id \in DOMAIN inflight[args'[w].ns].reqs)
          => (/\ result'[w].err.code = "DuplicateInflight"
              /\ inflight' = inflight)]_vars

\* ----------------------------------------------------------------------- C8
\* C8: when the namespace has no row and AddSystemEventListener fails,
\* addInFlight returns that error and leaves the table without the inflight
\* and without the row, and sendAndWait returns the error and never calls send.
ListenerAttachFailure ==
    /\ [][\A w \in Waiters :
             (/\ pc[w] = "idle"
              /\ pc'[w] # "idle"
              /\ listenerFails'[args'[w].ns] > listenerFails[args'[w].ns])
             => (/\ pc'[w] = "done"
                 /\ result'[w] = [data |-> NoData, err |-> ListenerErr]
                 /\ inflight' = inflight
                 /\ ~inflight'[args'[w].ns].exists)]_vars
    /\ [](\A w \in Waiters : result[w].err = ListenerErr =>
             (pc[w] = "done" /\ sendCalls[w] = 0 /\ received[w] = 0))

\* a caller returned the listener's error, without a send and without a row
ListenerAttachFailureWitness ==
    \E w \in Waiters :
        /\ pc[w] = "done"
        /\ result[w] = [data |-> NoData, err |-> ListenerErr]
        /\ sendCalls[w] = 0
        /\ listenerFails[args[w].ns] = 1
        /\ ~inflight[args[w].ns].exists

\* ----------------------------------------------------------------------- C9
\* C9: in a namespace where attaching never failed, any number N >= 1 of
\* addInFlight calls has called AddSystemEventListener exactly once.
ListenerIdempotence ==
    \A ns \in Namespaces :
        (addCalls[ns] >= 1 /\ listenerFails[ns] = 0) => listenerCalls[ns] = 1

\* two addInFlight calls in a namespace, the first inflight removed before the
\* second call, and one listener call
ListenerIdempotenceWitness ==
    \E ns \in Namespaces :
        /\ addCalls[ns] = 2
        /\ listenerFails[ns] = 0
        /\ listenerCalls[ns] = 1
        /\ \E w \in Waiters : pc[w] = "done" /\ args[w].ns = ns /\ returned[w] = 1
        /\ \E w \in Waiters : pc[w] = "added" /\ args[w].ns = ns /\ OwnEntryPresent(w)
                              /\ DOMAIN inflight[ns].reqs = {args[w].id}

\* ---------------------------------------------------------------------- C10
\* C10 as claimed: AddSystemEventListener is called at most once per
\* namespace, whatever the calls return.
ListenerAtMostOnceClaimed ==
    \A ns \in Namespaces : listenerCalls[ns] <= 1

\* C10 as amended: AddSystemEventListener succeeds at most once per namespace;
\* it is called again only when every earlier call for the namespace failed,
\* and never once the namespace has its row.
ListenerAtMostOnce ==
    \A ns \in Namespaces :
        /\ listenerCalls[ns] <= listenerFails[ns] + 1
        /\ inflight[ns].exists <=> (listenerCalls[ns] = listenerFails[ns] + 1)

\* a second listener call in a namespace after a failed one
ListenerAtMostOnceWitness ==
    \E ns \in Namespaces :
        /\ listenerCalls[ns] = 2
        /\ listenerFails[ns] = 1
        /\ inflight[ns].exists


\* ---------------------------------------------------------------------- C11
\* w waits for the confirmation of a message and v for a reply to a message,
\* in one namespace
DualWaiters(w, v) ==
    /\ w # v
    /\ pc[w] # "idle"
    /\ pc[v] # "idle"
    /\ args[w].reqType = messageConfirm
    /\ args[v].reqType = messageReply
    /\ args[w].ns = args[v].ns

\* both callers are in their select, each holding its entry, and the callback
\* has started, for one confirmed message, resolveConfirmed for w's inflight
\* and resolveReply for v's inflight
DualDispatched(w, v) ==
    /\ DualWaiters(w, v)
    /\ pc[w] = "waiting"
    /\ pc[v] = "waiting"
    /\ \E rc \in resolvers, rr \in resolvers :
          /\ rc.inflight.response = w
          /\ rc.resp = inflightResponse(args[w].id, Message(args[w].id), NoErr)
          /\ rr.inflight.response = v
          /\ rr.resp = inflightResponse(args[w].id, MessageInOut(args[w].id), NoErr)

\* as DualDispatched, with the reply's data loaded: both resolvers are at
\* their send
DualSending(w, v) ==
    /\ DualDispatched(w, v)
    /\ \E rc \in Senders(w) : rc.resp.err = NoErr
    /\ Senders(v) # {}

\* the caller that waits for a reply returned a reply and a nil error
ReturnedReply(v) ==
    /\ pc[v] = "done"
    /\ result[v].data.type = "MessageInOut"
    /\ result[v].data.id \in Ids
    /\ result[v].err = NoErr

\* C11 as claimed: after one message_confirmed event was matched to both a
\* messageConfirm inflight and a messageReply inflight, both callers, their
\* contexts not cancelled, return successfully: the first the message, the
\* second the reply.
DualResolutionClaimed ==
    \A w \in Waiters : \A v \in Waiters \ {w} :
        DualDispatched(w, v) ~>
            (\/ ctxDone[w]
             \/ ctxDone[v]
             \/ ReturnedConfirmed(w) /\ ReturnedReply(v))

\* C11 as amended: a message_confirmed event for a message with id A and
\* correlation id B, with A inflight as messageConfirm and B as messageReply
\* in its namespace, starts a resolver for each of the two inflights.  Once
\* the reply's data is loaded each caller returns whatever the other does,
\* unless its own context is cancelled: the first the message or the error of
\* a rejection matched for it as well, the second a reply.
DualResolution ==
    /\ [](\A ns \in Namespaces, a \in Ids, b \in Ids :
            LET inflightReply == getInFlight(inflight, ns, messageReply, b)
                inflightReq == getInFlight(inflight, ns, messageConfirm, a)
            IN  (inflightReply # NilRequest /\ inflightReq # NilRequest) =>
                    dispatch(inflight, EventTypeMessageConfirmed, ns, DbEntity(a, b))
                        = {resolveReply(inflightReply, DbEntity(a, b)),
                           resolveConfirmed(inflightReq, DbEntity(a, b))})
    /\ \A w \in Waiters : \A v \in Waiters \ {w} :
          DualSending(w, v) ~>
              (/\ ctxDone[w] \/ (received[w] = 1 /\ (ReturnedConfirmed(w) \/ ReturnedRejected(w)))
               /\ ctxDone[v] \/ (received[v] = 1 /\ ReturnedReply(v)))

\* after one event both callers returned, the first the message and the
\* second the reply made of that message
DualResolutionWitness ==
    \E w \in Waiters, v \in Waiters :
        /\ DualWaiters(w, v)
        /\ nEvents = 1
        /\ received[w] = 1
        /\ received[v] = 1
        /\ ReturnedConfirmed(w)
        /\ ReturnedReply(v)
        /\ result[v].data = MessageInOut(args[w].id)


\* ---------------------------------------------------------------------- C12
\* the request type whose callers a response of this content is made for
ResponseKind(resp) ==
    CASE resp.data.type = "Message" \/ resp.err.code = "MsgRejected" -> messageConfirm
      [] resp.data.type = "MessageInOut" -> messageReply
      [] resp.data.type = "TokenPool" \/ resp.err.code = "MsgTokenPoolRejected"
            -> tokenPoolConfirm
      [] resp.data.type = "TokenTransfer" \/ resp.err.code = "MsgTokenTransferFailed"
            -> tokenTransferConfirm
      [] OTHER -> "none"

\* C12: getInFlight for a request type never gives an inflight of another
\* request type, so every resolver holds an outcome of the type of event that
\* resolves its inflight's request type, and so does what a caller receives.
KindDiscrimination ==
    /\ \A ns \in Namespaces, reqType \in requestType, id \in Ids \cup {NilId} :
          LET req == getInFlight(inflight, ns, reqType, id)
          IN  req # NilRequest => (req.reqType = reqType /\ req.id = id)
    /\ \A r \in resolvers : ResponseKind(r.resp) = r.inflight.reqType
    /\ \A w \in Waiters :
          received[w] = 1 => ResponseKind([data |-> result[w].data, err |-> result[w].err])
                                = args[w].reqType

\* after an event, a caller waiting for a message confirmation holds the
\* entry of its id, and a token_pool_confirmed event for that id finds nothing
KindDiscriminationWitness ==
    \E w \in Waiters :
        /\ pc[w] = "waiting"
        /\ OwnEntryPresent(w)
        /\ args[w].reqType = messageConfirm
        /\ nEvents >= 1
        /\ received[w] = 0
        /\ getInFlight(inflight, args[w].ns, tokenPoolConfirm, args[w].id) = NilRequest
        /\ dispatch(inflight, EventTypePoolConfirmed, args[w].ns,
                    DbEntity(args[w].id, NilId)) = {}

\* ---------------------------------------------------------------------- C13
\* C13: for an event of any type in a namespace with no row or an empty row,
\* eventCallback reads nothing from the database, starts no resolver and
\* returns nil; an event delivered while no namespace has an inflight leaves
\* the resolvers as they are.
NoInflightFastPath ==
    /\ [](\A type \in AllEventTypes, ns \in Namespaces :
            NoInflights(inflight, ns) =>
                /\ databaseReads(inflight, type, ns) = 0
                /\ \A db \in DbOutcomes(type) :
                      /\ dispatch(inflight, type, ns, db) = {}
                      /\ eventCallbackReturn(inflight, type, ns, db) = NoErr)
    /\ [][(nEvents' # nEvents /\ \A ns \in Namespaces : NoInflights(inflight, ns))
             => resolvers' = resolvers]_vars

\* every event was delivered before any caller came, and none started a
\* resolver
NoInflightFastPathWitness ==
    /\ nEvents = MaxEvents
    /\ \A w \in Waiters : pc[w] = "idle"
    /\ \A ns \in Namespaces : ~inflight[ns].exists
    /\ resolvers = {}

\* ---------------------------------------------------------------------- C14
\* C14: a message_rejected, token_pool_rejected or token_transfer_op_failed
\* event whose entity id is that of an inflight messageConfirm,
\* tokenPoolConfirm or tokenTransferConfirm request starts one resolver that
\* sends this inflight no payload and the error MsgRejected,
\* MsgTokenPoolRejected or MsgTokenTransferFailed; a caller that receives an
\* error returns it with no payload, and it is the error of its request type;
\* nothing a message_rejected event starts is for a messageReply inflight.
NegativeOutcomes ==
    /\ [](\A ns \in Namespaces, id \in Ids :
            /\ LET req == getInFlight(inflight, ns, messageConfirm, id)
               IN  req # NilRequest =>
                     \A cid \in Ids \cup {NilId} :
                        dispatch(inflight, EventTypeMessageRejected, ns, DbEntity(id, cid))
                          = {Resolver(req, inflightResponse(NilId, NoData, MsgRejected(id)),
                                      "send")}
            /\ LET req == getInFlight(inflight, ns, tokenPoolConfirm, id)
               IN  req # NilRequest =>
                     dispatch(inflight, EventTypePoolRejected, ns, DbEntity(id, NilId))
                       = {Resolver(req, inflightResponse(NilId, NoData,
                                                         MsgTokenPoolRejected(id)), "send")}
            /\ LET req == getInFlight(inflight, ns, tokenTransferConfirm, id)
               IN  req # NilRequest =>
                     dispatch(inflight, EventTypeTransferOpFailed, ns, DbEntity(id, NilId))
                       = {Resolver(req, inflightResponse(NilId, NoData,
                                                         MsgTokenTransferFailed(id)), "send")}
            /\ \A cid \in Ids \cup {NilId} :
                  \A r \in dispatch(inflight, EventTypeMessageRejected, ns, DbEntity(id, cid)) :
                     r.inflight.reqType # messageReply)
    /\ [](\A r \in resolvers :
            r.resp.err # NoErr =>
                /\ r.inflight.reqType # messageReply
                /\ r.resp.data = NoData
                /\ r.resp.err = RejectedErr(r.inflight.reqType, r.inflight.id))
    /\ [][\A w \in Waiters :
             (received'[w] > received[w] /\ result'[w].err # NoErr)
             => (/\ args[w].reqType # messageReply
                 /\ result'[w] = [data |-> NoData,
                                  err |-> RejectedErr(args[w].reqType, args[w].id)])]_vars

\* after one event a caller returned what it received: no payload and the
\* error of its request type
NegativeOutcomesWitness ==
    \E w \in Waiters :
        /\ nEvents = 1
        /\ received[w] = 1
        /\ ReturnedRejected(w)
        /\ args[w].reqType = tokenTransferConfirm

\* ---------------------------------------------------------------------- C15
\* C15: for an inflight messageReply request on id M1, a message_confirmed
\* event for a message M2 with correlation id M1 starts resolveReply for it,
\* whose response holds M2; a message_confirmed event for M1 with no
\* correlation id, or for a message with another correlation id, starts
\* nothing for it; a caller of WaitForReply that receives returns the reply
\* held by the response.
ReplyCorrelation ==
    /\ \A ns \in Namespaces, m1 \in Ids :
          LET req == getInFlight(inflight, ns, messageReply, m1)
          IN  req # NilRequest =>
                /\ \A m2 \in Ids :
                      /\ resolveReply(req, DbEntity(m2, m1))
                            \in dispatch(inflight, EventTypeMessageConfirmed, ns,
                                         DbEntity(m2, m1))
                      /\ resolveReply(req, DbEntity(m2, m1)).resp
                            = inflightResponse(m2, MessageInOut(m2), NoErr)
                /\ \A m \in Ids, cid \in (Ids \cup {NilId}) \ {m1} :
                      \A r \in dispatch(inflight, EventTypeMessageConfirmed, ns,
                                        DbEntity(m, cid)) : r.inflight # req
    /\ \A r \in resolvers :
          r.inflight.reqType = messageReply =>
              r.resp = inflightResponse(r.resp.id, MessageInOut(r.resp.id), NoErr)
    /\ \A w \in Waiters :
          (received[w] = 1 /\ args[w].reqType = messageReply) =>
              (result[w].err = NoErr /\ result[w].data.type = "MessageInOut")

\* after one event a caller of WaitForReply on one id returned the reply,
\* which has another id
ReplyCorrelationWitness ==
    \E w \in Waiters :
        /\ nEvents = 1
        /\ args[w].reqType = messageReply
        /\ received[w] = 1
        /\ ReturnedReply(w)
        /\ result[w].data.id # args[w].id

\* ---------------------------------------------------------------------- C16
\* C16: a resolver's send never blocks: a resolver at its send for an
\* inflight whose caller has received a response already can take its step.
NonBlockingDelivery ==
    \A r \in resolvers :
        (r.stage = "send" /\ received[r.inflight.response] >= 1)
        => ENABLED sendAndWaitReply(r.inflight.response, r)

\* ---------------------------------------------------------------------- C17
\* C17: a resolver at its send for an inflight whose caller has returned
\* RequestTimeout can take its step: it is not left blocked.
LateResolution ==
    \A r \in resolvers :
        (r.stage = "send" /\ ReturnedTimeout(r.inflight.response))
        => ENABLED sendAndWaitReply(r.inflight.response, r)

\* ---------------------------------------------------------------------- C18
\* C18: the removeInFlight of a caller, which runs once whatever the caller
\* returns, removes the entry this caller's addInFlight made and no entry
\* of another caller.
PairedInsertRemove ==
    /\ [](\A w \in Waiters :
            (pc[w] = "done" /\ result[w].err # ListenerErr) => returned[w] = 1)
    /\ [][\A w \in Waiters :
             (pc[w] = "cleanup" /\ pc'[w] = "done")
             => (/\ OwnEntryPresent(w)
                 /\ ~OwnEntryPresent(w)'
                 /\ \A o \in Waiters \ {w} :
                       OwnEntryPresent(o) => OwnEntryPresent(o)')]_vars

\* ---------------------------------------------------------------------- C19
\* C19: a step of eventCallback, of a resolver or of a delivery leaves the
\* inflight table as it is: the table changes only in a caller's addInFlight
\* and in a caller's removeInFlight, so the entry of a caller that received
\* its response is in the table at its removeInFlight as it was before the
\* event.
FrameInflight ==
    /\ [][(nEvents' # nEvents \/ resolvers' # resolvers \/ received' # received)
             => inflight' = inflight]_vars
    /\ [][inflight' # inflight =>
             \E w \in Waiters : \/ pc[w] = "idle" /\ pc'[w] = "added"
                                \/ pc[w] = "cleanup" /\ pc'[w] = "done"]_vars
    /\ [][\A w \in Waiters :
             received'[w] > received[w] =>
                 (pc'[w] = "cleanup" /\ (OwnEntryPresent(w) <=> OwnEntryPresent(w)'))]_vars

\* a caller received the response of an event and its entry is in the table
FrameInflightWitness ==
    \E w \in Waiters :
        /\ pc[w] = "cleanup"
        /\ received[w] = 1
        /\ nEvents >= 1
        /\ OwnEntryPresent(w)
        /\ getInFlight(inflight, args[w].ns, args[w].reqType, args[w].id)
              = inflightRequest(args[w].id, args[w].reqType, w)

\* ---------------------------------------------------------------------- C20
\* C20: an eventCallback that holds the mutex can return and unlock it
\* whatever responses are unread, and it does; with the mutex unlocked the
\* next event of any type and namespace can be delivered, a caller can run
\* its addInFlight and a caller before its removeInFlight can run it,
\* whatever responses are unread.
CallbackNeverBlocks ==
    /\ [](inflightMux = LockedByEventCallback => ENABLED eventCallbackUnlock)
    /\ (inflightMux = LockedByEventCallback) ~> (inflightMux = Unlocked)
    /\ [](inflightMux = Unlocked =>
            /\ nEvents < MaxEvents =>
                  \A type \in AllEventTypes, ns \in Namespaces :
                      ENABLED (\E db \in DbOutcomes(type) : eventCallback(type, ns, db))
            /\ \A w \in Waiters :
                  /\ pc[w] = "idle" =>
                        \A a \in CallArgs(w) :
                            ENABLED sendAndWaitAdd(w, a.ns, a.id, a.reqType, NoErr)
                  /\ pc[w] = "cleanup" => ENABLED sendAndWaitDefer(w))

\* the callback has returned and a response it started is unread, its caller
\* not in its select yet, while another caller is before its removeInFlight
CallbackNeverBlocksWitness ==
    \E w \in Waiters, o \in Waiters :
        /\ pc[w] \in {"added", "sending"}
        /\ Senders(w) # {}
        /\ nEvents = 1
        /\ pc[o] = "cleanup"
        /\ inflightMux = Unlocked


HydrationOutcomes ==
    /\ [](\A type \in EventTypes, ns \in Namespaces :
            ~NoInflights(inflight, ns) =>
                /\ dispatch(inflight, type, ns, DbNone) = {}
                /\ eventCallbackReturn(inflight, type, ns, DbNone) = NoErr
                /\ dispatch(inflight, type, ns, DbErr) = {}
                /\ eventCallbackReturn(inflight, type, ns, DbErr) = DatabaseErr)
    /\ [][(nEvents' # nEvents /\ resolvers' = resolvers) =>
             UNCHANGED <<inflight, pc, args, ctxDone, sendRet, result, listenerCalls,
                         listenerFails, addCalls, sendCalls, received, returned,
                         inflightMux>>]_vars
    /\ [][\A w \in Waiters :
             (pc[w] = "waiting" /\ pc'[w] # "waiting") =>
                 \/ ctxDone[w] /\ result'[w].err = MsgRequestTimeout(args[w].id)
                 \/ \E r \in Senders(w) :
                       /\ received'[w] = received[w] + 1
                       /\ resolvers' = resolvers \ {r}]_vars

\* both events went to the namespace of a caller blocked in its select, whose
\* request is in the table, and resolved nothing
HydrationOutcomesWitness ==
    \E w \in Waiters :
        /\ pc[w] = "waiting"
        /\ ~ctxDone[w]
        /\ OwnEntryPresent(w)
        /\ nEvents = MaxEvents
        /\ resolvers = {}
        /\ inflightMux = Unlocked
        /\ \A v \in Waiters : received[v] = 0

\* ---------------------------------------------------------------------- C23
\* C23: a resolver that terminates without any response being received is a
\* resolveReply whose GetMessageData failed: the step sends nothing and changes
\* nothing but the set of running goroutines, so the table still holds the
\* request and every caller is where it was.  A caller of WaitForReply leaves
\* its select only with the reply of a message a matching event brought (a
\* MessageInOut and a nil error, received from a resolver) or with
\* RequestTimeout when its context is done.
ReplyDataLoadFailure ==
    /\ [][(nEvents' = nEvents /\ received' = received
             /\ Cardinality(resolvers') < Cardinality(resolvers)) =>
             /\ \E r \in resolvers :
                   /\ r.stage = "data"
                   /\ r.inflight.reqType = messageReply
                   /\ resolvers' = resolvers \ {r}
             /\ UNCHANGED <<inflight, pc, args, ctxDone, sendRet, result, listenerCalls,
                            listenerFails, addCalls, sendCalls, returned,
                            inflightMux>>]_vars
    /\ [][\A w \in Waiters :
             (args[w].reqType = messageReply /\ pc[w] = "waiting"
                /\ pc'[w] # "waiting") =>
                 \/ /\ ctxDone[w]
                    /\ received'[w] = received[w]
                    /\ result'[w] = [data |-> NoData,
                                     err |-> MsgRequestTimeout(args[w].id)]
                 \/ \E r \in Senders(w) :
                       /\ received'[w] = received[w] + 1
                       /\ r.resp.data.type = "MessageInOut"
                       /\ result'[w] = [data |-> r.resp.data, err |-> NoErr]]_vars

\* the first callback has started resolvers and not yet returned, they have all
\* terminated and nothing was received: the data of the reply could not be
\* loaded, and the WaitForReply caller is in its select, its request in the table
ReplyDataLoadFailureWitness ==
    /\ inflightMux = LockedByEventCallback
    /\ nEvents = 1
    /\ resolvers = {}
    /\ \A v \in Waiters : received[v] = 0
    /\ \E w \in Waiters :
          /\ args[w].reqType = messageReply
          /\ pc[w] = "waiting"
          /\ OwnEntryPresent(w)

\* ---------------------------------------------------------------------- C24
\* C24: every response a resolver holds for sending, and every result
\* sendAndWait has returned or is about to return, carries exactly one of a
\* payload and an error: a confirmation or reply has its payload and a nil
\* error; a rejection, a failure, a timeout, a send error and a listener error
\* have the error and a nil payload.
PayloadXorError ==
    /\ \A r \in resolvers : (r.resp.data = NoData) # (r.resp.err = NoErr)
    /\ \A w \in Waiters :
          pc[w] \in {"cleanup", "done"} =>
              /\ (result[w].data = NoData) # (result[w].err = NoErr)
              /\ result[w].data # NoData =>
                    result[w].data.type \in {"Message", "MessageInOut", "TokenPool",
                                             "TokenTransfer"}
              /\ result[w].err # NoErr =>
                    result[w].err.code \in {"MsgRejected", "MsgTokenPoolRejected",
                                            "MsgTokenTransferFailed",
                                            "MsgRequestTimeout", "SendError",
                                            "ListenerError"}

\* one caller has returned the payload it received and the other the error it
\* received
PayloadXorErrorWitness ==
    \E w, v \in Waiters :
        /\ ReturnedConfirmed(w) /\ received[w] = 1
        /\ pc[v] = "done" /\ received[v] = 1
        /\ result[v].data = NoData /\ result[v].err.code = "MsgRejected"

\* ---------------------------------------------------------------------- C25
\* C25: every resolver works for the request one sendAndWait call made, and
\* what it sends is received by that call only: a caller that receives takes
\* the response of a resolver holding the request its own addInFlight made,
\* also when another call used the same namespace, id and type before it and
\* a resolver of that earlier request is still running.
InstanceIsolation ==
    /\ [](\A r \in resolvers :
            /\ r.inflight.response \in Waiters
            /\ pc[r.inflight.response] # "idle"
            /\ r.inflight = inflightRequest(args[r.inflight.response].id,
                                            args[r.inflight.response].reqType,
                                            r.inflight.response))
    /\ [][\A w \in Waiters :
             received'[w] # received[w] =>
                 \E r \in resolvers :
                     /\ r.stage = "send"
                     /\ r.inflight = inflightRequest(args[w].id, args[w].reqType, w)
                     /\ resolvers' = resolvers \ {r}
                     /\ received'[w] = received[w] + 1
                     /\ result'[w] = [data |-> r.resp.data, err |-> r.resp.err]
                     /\ \A v \in Waiters \ {w} :
                           /\ received'[v] = received[v]
                           /\ result'[v] = result[v]]_vars

\* caller v has returned and a resolver of its request is still sending; w
\* registered the same namespace, id and type after v's removal, and has
\* received the response of its own request
InstanceIsolationWitness ==
    \E w, v \in Waiters :
        /\ w # v
        /\ args[w] = args[v]
        /\ pc[v] = "done"
        /\ Senders(v) # {}
        /\ pc[w] = "cleanup"
        /\ OwnEntryPresent(w)
        /\ received[w] = 1

\* ---------------------------------------------------------------------- C26
\* C26: a response with a nil error carries the payload type of the request
\* type it answers, so the type assertion of the WaitFor* wrapper never fails:
\* this holds for every response a resolver holds and for every result
\* sendAndWait returns with a nil error, also when requests of different types
\* use the same id in the same namespace.
PayloadTyping ==
    /\ \A r \in resolvers :
          r.resp.err = NoErr => r.resp.data.type = WaitForType(r.inflight.reqType)
    /\ \A w \in Waiters :
          (pc[w] \in {"cleanup", "done"} /\ result[w].err = NoErr) =>
              result[w].data.type = WaitForType(args[w].reqType)

\* two calls used the same id in the same namespace with different request
\* types, and one has returned the confirmed entity it received
PayloadTypingWitness ==
    \E w, v \in Waiters :
        /\ w # v
        /\ pc[v] # "idle"
        /\ args[w].ns = args[v].ns
        /\ args[w].id = args[v].id
        /\ args[w].reqType # args[v].reqType
        /\ ReturnedConfirmed(w)
        /\ received[w] = 1
        /\ nEvents = MaxEvents

\* ---------------------------------------------------------------------- C27
\* C27: the table is written only by a step that finds the mutex free and
\* leaves it free (addInFlight and removeInFlight, each a whole critical
\* section), and the callback's lookups are made by a step that finds it free
\* and takes it; while the callback holds the mutex the table is not written,
\* no addInFlight, removeInFlight or other callback can run, and the holder
\* is the only one that releases it.
MutualExclusion ==
    /\ [][inflight' # inflight =>
             (inflightMux = Unlocked /\ inflightMux' = Unlocked)]_vars
    /\ [][(addCalls' # addCalls \/ returned' # returned \/ nEvents' # nEvents) =>
             inflightMux = Unlocked]_vars
    /\ [][inflightMux = LockedByEventCallback =>
             /\ inflight' = inflight
             /\ inflightMux' # inflightMux =>
                   /\ inflightMux' = Unlocked
                   /\ UNCHANGED <<pc, resolvers, nEvents, addCalls, returned>>]_vars
    /\ [](inflightMux = LockedByEventCallback =>
            /\ \A type \in AllEventTypes, ns \in Namespaces :
                  ~ENABLED (\E db \in DbOutcomes(type) : eventCallback(type, ns, db))
            /\ \A w \in Waiters :
                  /\ ~ENABLED sendAndWaitDefer(w)
                  /\ \A a \in CallArgs(w), e \in {NoErr, ListenerErr} :
                        ~ENABLED sendAndWaitAdd(w, a.ns, a.id, a.reqType, e))

\* the callback holds the mutex while one caller is about to call addInFlight
\* and the other, having received, is about to call removeInFlight
MutualExclusionWitness ==
    /\ inflightMux = LockedByEventCallback
    /\ \E w, v \in Waiters :
          /\ pc[w] = "idle"
          /\ pc[v] = "cleanup"
          /\ received[v] = 1
          /\ OwnEntryPresent(v)

\* ---------------------------------------------------------------------- C28
\* C28: a namespace's row, once in the table, stays: no step removes it.  The
\* removeInFlight of a caller leaves the row in place without the caller's id,
\* empty when that was the last request, and no addInFlight in a namespace that
\* has its row, empty or not, calls AddSystemEventListener.
RowPersists ==
    /\ [][\A ns \in Namespaces :
             inflight[ns].exists =>
                 /\ inflight'[ns].exists
                 /\ listenerCalls'[ns] = listenerCalls[ns]
                 /\ listenerFails'[ns] = listenerFails[ns]]_vars
    /\ [][\A w \in Waiters :
             (pc[w] = "cleanup" /\ pc'[w] = "done") =>
                 /\ inflight'[args[w].ns].exists
                 /\ DOMAIN inflight'[args[w].ns].reqs
                       = DOMAIN inflight[args[w].ns].reqs \ {args[w].id}]_vars

\* both callers used the namespace and have sent and removed their
\* requests: the row is there and empty, and the listener was attached once
RowPersistsWitness ==
    \E ns \in Namespaces :
        /\ inflight[ns].exists
        /\ DOMAIN inflight[ns].reqs = {}
        /\ addCalls[ns] = 2
        /\ listenerCalls[ns] = 1
        /\ \A w \in Waiters : pc[w] = "done" /\ args[w].ns = ns /\ sendCalls[w] = 1

\* ---------------------------------------------------------------------- C29
\* C29: whatever the table holds, the resolvers an event of namespace ns
\* starts are for requests in the row of ns, made by calls for ns: a request of
\* another namespace is not resolved, also when it has the same id and type.
\* The resolvers one callback starts are all for one namespace, and the
\* removeInFlight of a caller leaves the rows of the other namespaces as they
\* are.
NamespaceIsolation ==
    /\ [](\A type \in EventTypes, ns \in Namespaces :
            \A db \in DbOutcomes(type) :
                \A r \in dispatch(inflight, type, ns, db) :
                    /\ args[r.inflight.response].ns = ns
                    /\ r.inflight.id \in DOMAIN inflight[ns].reqs
                    /\ inflight[ns].reqs[r.inflight.id] = r.inflight)
    /\ [][nEvents' # nEvents =>
             \E ns \in Namespaces :
                 \A r \in resolvers' \ resolvers : args[r.inflight.response].ns = ns]_vars
    /\ [][\A w \in Waiters :
             (pc[w] = "cleanup" /\ pc'[w] = "done") =>
                 \A ns \in Namespaces \ {args[w].ns} : inflight'[ns] = inflight[ns]]_vars

\* two callers wait in different namespaces for the same id with the same
\* type; the first callback, still holding the mutex, has started a resolver
\* for one of them and none for the other, whose request is in its row
NamespaceIsolationWitness ==
    /\ inflightMux = LockedByEventCallback
    /\ nEvents = 1
    /\ \E w, v \in Waiters :
          /\ args[w].id = args[v].id
          /\ args[w].reqType = args[v].reqType
          /\ args[w].ns # args[v].ns
          /\ pc[w] = "waiting" /\ Senders(w) # {}
          /\ pc[v] = "waiting" /\ OwnEntryPresent(v)
          /\ \A r \in resolvers : r.inflight.response = w

\* ---------------------------------------------------------------------- C30
\* C30: whatever the table holds, one event starts at most one resolver for
\* any request.  For a message_confirmed event of a message whose CID is its
\* own ID, the request under that id gets resolveReply alone when it is a
\* messageReply request, resolveConfirmed alone when it is a messageConfirm
\* request, and nothing otherwise.
SingleDispatch ==
    /\ [](\A type \in EventTypes, ns \in Namespaces :
            \A db \in DbOutcomes(type) :
                \A r1, r2 \in dispatch(inflight, type, ns, db) :
                    r1.inflight = r2.inflight => r1 = r2)
    /\ [](\A ns \in Namespaces, id \in Ids :
            LET started == dispatch(inflight, EventTypeMessageConfirmed, ns,
                                    DbEntity(id, id))
                req == IF inflight[ns].exists /\ id \in DOMAIN inflight[ns].reqs
                       THEN inflight[ns].reqs[id]
                       ELSE NilRequest
            IN  started =
                  CASE req.reqType = messageReply ->
                          {resolveReply(req, DbEntity(id, id))}
                    [] req.reqType = messageConfirm ->
                          {resolveConfirmed(req, DbEntity(id, id))}
                    [] OTHER -> {})
    /\ [][nEvents' # nEvents =>
             \A r1, r2 \in resolvers' \ resolvers :
                 r1.inflight = r2.inflight => r1 = r2]_vars

\* the first callback, still holding the mutex, got a message whose CID is its
\* own ID and the id of a messageReply request: the caller has received the
\* reply and no other resolver was started
SingleDispatchWitness ==
    /\ inflightMux = LockedByEventCallback
    /\ nEvents = 1
    /\ resolvers = {}
    /\ \E w \in Waiters :
          /\ args[w].reqType = messageReply
          /\ pc[w] = "cleanup"
          /\ received[w] = 1
          /\ result[w] = [data |-> MessageInOut(args[w].id), err |-> NoErr]
          /\ \A v \in Waiters \ {w} : received[v] = 0

\* ---------------------------------------------------------------------- C31
\* C31: whatever the table holds, a token_transfer_op_failed event whose
\* operation is found and whose inputs give no LocalID makes the callback
\* return nil and start no resolver, in every namespace; no request is
\* registered under the nil id, so none can be taken for it.
UndecodableInputs ==
    /\ \A ns \in Namespaces :
          /\ dispatch(inflight, EventTypeTransferOpFailed, ns,
                      DbEntity(NilId, NilId)) = {}
          /\ eventCallbackReturn(inflight, EventTypeTransferOpFailed, ns,
                                 DbEntity(NilId, NilId)) = NoErr
          /\ \A reqType \in requestType :
                getInFlight(inflight, ns, reqType, NilId) = NilRequest
          /\ inflight[ns].exists => NilId \notin DOMAIN inflight[ns].reqs
    /\ DbEntity(NilId, NilId) \in DbOutcomes(EventTypeTransferOpFailed)

\* a WaitForTokenTransfer caller is in its select, its request in the table,
\* so that the callback reads the operation; every event has been delivered
\* and no response was started for the caller or received
UndecodableInputsWitness ==
    \E w \in Waiters :
        /\ args[w].reqType = tokenTransferConfirm
        /\ pc[w] = "waiting"
        /\ OwnEntryPresent(w)
        /\ databaseReads(inflight, EventTypeTransferOpFailed, args[w].ns) = 1
        /\ nEvents = MaxEvents
        /\ Senders(w) = {}
        /\ received[w] = 0

=============================================================================
